---- MODULE Spec2Model ----
(***************************************************************************)
(* A model of fetch-data.js, the hourly soil-salinity collector.           *)
(*                                                                         *)
(* The file holds two scripts.  The first (lines 1-191) reads the location *)
(* registry of the Base44 backend, and posts one SalinityReading and, for  *)
(* dangerous salinity, one Alert per location.  The second (lines 193-333) *)
(* walks the static LOCATIONS list and rewrites data/readings.json with    *)
(* the last 500 readings.  Actions of the first are prefixed Api, actions  *)
(* of the second File.                                                     *)
(*                                                                         *)
(* Numbers.  Every JavaScript number is an integer count of 1/10000, so    *)
(* 1.5 is 15000 and 25 is 250000; the inputs are chosen so that every      *)
(* product of the code is exact at this resolution.  toFixed(d) rounds to  *)
(* the nearest multiple of 10^(4-d) of these units.                        *)
(***************************************************************************)
EXTENDS Integers, Sequences, FiniteSets, TLC

VARIABLES
  pc,            \* api: where main() is suspended
  locations,     \* api: const locations (line 125)
  idx,           \* api: position of the for-of loop in locations (1-based)
  weatherData,   \* api: const weatherData of the current iteration (line 132)
  salinity,      \* api: const salinity of the current iteration (line 143)
  readingData,   \* api: const readingData of the current iteration (line 152)
  saved,         \* api: const saved of the current iteration (line 166)
  outstanding,   \* api: the HTTP requests awaiting their response
  trace,         \* api: the calls and timer waits made so far, in order
  console,       \* api: what console.log and console.error have printed
  sinkReadings,  \* api: SalinityReading entities the backend has stored
  sinkAlerts,    \* api: Alert entities the backend has stored
  exitCode,      \* api: the process's exit status once pc = "exited"
  today,         \* api: new Date().toISOString().split('T')[0], as a day number
  fileExists,    \* file: fs.existsSync(dataFilePath)
  fileContent,   \* file: the array data/readings.json holds
  runs,          \* file: per run of the script, where main() is and its locals
  now,           \* file: the clock new Date() reads
  unit           \* a single call of the estimator or of createAlert

apiVars == <<pc, locations, idx, weatherData, salinity, readingData, saved,
             outstanding, trace, console, sinkReadings, sinkAlerts, exitCode,
             today>>

fileVars == <<fileExists, fileContent, runs, now>>

vars == <<apiVars, fileVars, unit>>

----
\* Bounds of the model.

\* The most locations the registry returns in one run.
MaxLocations == 2

\* The runs of the second script, one after the other.
MaxRuns == 2

----
\* JavaScript values.

\* null (lines 26, 77) and a local not assigned yet.
Null == [type |-> "null"]

\* obj.f of an object that may lack f: Has says whether it is defined.
Has(obj, f) == f \in DOMAIN obj

Max(a, b) == IF a >= b THEN a ELSE b
Min(a, b) == IF a <= b THEN a ELSE b
Abs(a) == IF a < 0 THEN -a ELSE a

\* The results Number.prototype.toFixed can give for the value x, as numbers
\* again (parseFloat): the nearest multiple of step.  A decimal that lies
\* half-way between two multiples is a double slightly above or slightly
\* below it, so both neighbours are possible.
ToFixed(x, step) ==
  LET a    == Abs(x)
      lo   == (a \div step) * step
      rest == a - lo
      sign == IF x < 0 THEN -1 ELSE 1
      mags == IF 2 * rest < step THEN {lo}
              ELSE IF 2 * rest > step THEN {lo + step}
              ELSE {lo, lo + step}
  IN  {sign * m : m \in mags}

----
\* The estimator.

\* MoisturePenalty with two independent tests instead of else-if: dry soil
\* gets both penalties.
MoisturePenaltyStacked(soilMoisture) ==
  (IF soilMoisture < 200000 THEN 15000 ELSE 0)
    + (IF soilMoisture < 300000 THEN 8000 ELSE 0)

\* Lines 35-36 and 229-230: the soil-moisture ladder.
MoisturePenalty(soilMoisture) ==
  IF soilMoisture < 200000 THEN 15000
  ELSE IF soilMoisture < 300000 THEN 8000
  ELSE 0

\* RainfallPenalty without its first branch: only rain from 5 to below 15
\* adds a penalty.
RainfallPenaltyDrizzleOnly(rainfall) ==
  IF rainfall < 50000 THEN 0
  ELSE IF rainfall < 150000 THEN 5000
  ELSE 0

\* Lines 39-40 and 232-233: the rainfall ladder.
RainfallPenalty(rainfall) ==
  IF rainfall < 50000 THEN 10000
  ELSE IF rainfall < 150000 THEN 5000
  ELSE 0

\* TemperaturePenalty with the ladder's tests in the other order: every
\* temperature above 30 takes the first branch.
TemperaturePenaltyWarmFirst(w) ==
  IF Has(w, "temperature") /\ w.temperature > 300000 THEN 4000
  ELSE IF Has(w, "temperature") /\ w.temperature > 350000 THEN 8000
  ELSE 0

\* Lines 43-44 and 235-236: the temperature ladder.  A comparison with
\* undefined is false, so an observation without temperature adds nothing.
TemperaturePenalty(w) ==
  IF Has(w, "temperature") /\ w.temperature > 350000 THEN 8000
  ELSE IF Has(w, "temperature") /\ w.temperature > 300000 THEN 4000
  ELSE 0

\* Lines 46 and 240: Math.max(0.5, Math.min(salinity, 8.0)).
ClampSalinity(s) == Max(5000, Min(s, 80000))

\* Lines 31-47: calculateSalinity of the first script.
ApiCalculateSalinity(w, soilMoisture) ==
  ClampSalinity(10000 + MoisturePenalty(soilMoisture)
                      + RainfallPenalty(w.rainfall)
                      + TemperaturePenalty(w))

\* Lines 146-149 and 291-294: the risk tier of a salinity.
RiskLevel(s) ==
  IF s >= 80000 THEN "critical"
  ELSE IF s >= 40000 THEN "high"
  ELSE IF s >= 20000 THEN "moderate"
  ELSE "low"

----
\* The first script: the weather provider and the Base44 backend.

\* Location i of the registry (lines 50-54): an entity with a stable id.
RegistryLocation(i) ==
  [id |-> i, name |-> i, latitude |-> 10 * i, longitude |-> 20 * i]

\* The registry's answer with n locations.
Registry(n) == [i \in 1..n |-> RegistryLocation(i)]

\* A weather body ("main" and "rain" are optional, as are their fields).
Body(main, rain) == [main |-> main, rain |-> rain]

\* Responses of the weather provider, as fetch() and response.json() give
\* them (lines 16-17).  The body is not validated by the code, so any JSON
\* can arrive: an error body without "main", a body whose "main" lacks a
\* field, any number as rain volume.
ApiWeatherResponses ==
  { [status |-> "unreachable"],
    [status |-> "ok", data |-> [cod |-> 401]],
    [status |-> "ok", data |-> [main |-> [temp |-> 380000, humidity |-> 400000]]],
    [status |-> "ok", data |-> Body([temp |-> 250000, humidity |-> 800000],
                                     ("3h" :> 200000))],
    [status |-> "ok", data |-> Body([temp |-> 380000], ("1h" :> 20000))],
    [status |-> "ok", data |-> Body([temp |-> 380000, humidity |-> 400000],
                                     ("1h" :> -200000))] }

\* Math.random(), in 1/10000.
ApiRandoms == {0, 9990}

\* Lines 22 and 216: data.rain?.['1h'] || data.rain?.['3h'] || 0.
Rainfall(data) ==
  IF ~Has(data, "rain") THEN 0
  ELSE IF Has(data.rain, "1h") /\ data.rain["1h"] # 0 THEN data.rain["1h"]
  ELSE IF Has(data.rain, "3h") /\ data.rain["3h"] # 0 THEN data.rain["3h"]
  ELSE 0

\* The object literal of lines 19-23 and 213-218: a property whose value is
\* undefined is a field the record lacks.
Observation(data, extra) ==
  LET main == data.main
      keys == {"rainfall"}
                \cup (IF Has(main, "temp") THEN {"temperature"} ELSE {})
                \cup (IF Has(main, "humidity") THEN {"humidity"} ELSE {})
  IN  [k \in keys |->
         CASE k = "temperature" -> main.temp
           [] k = "humidity"    -> main.humidity
           [] OTHER             -> Rainfall(data)] @@ extra

\* Whether fetch, response.json() or data.main.temp throws (lines 16-20).
WeatherThrows(response) ==
  response.status # "ok" \/ ~Has(response.data, "main")

\* Lines 13-28: fetchWeatherData of the first script.
ApiFetchWeatherData(response) ==
  IF WeatherThrows(response) THEN Null
  ELSE Observation(response.data, <<>>)

\* ApiSoilMoisture with a base of 15 instead of 25.
ApiSoilMoistureDryBase(w, rnd) == 150000 + (w.rainfall \div 2) + rnd * 10

\* Line 140: 25 + rainfall * 0.5 + Math.random() * 10.
ApiSoilMoisture(w, rnd) == 250000 + (w.rainfall \div 2) + rnd * 10

\* Lines 152-163 with the location_id of lines 69-72: the JSON body posted
\* for a reading.  JSON.stringify drops the properties that are undefined.
ApiReadingData(location, w, soilMoisture, s, rnd, date) ==
  LET keys == {"location_id", "reading_date", "salinity_level", "soil_moisture",
               "rainfall_mm", "ndvi_value", "risk_level", "data_source",
               "is_real_data"}
                \cup (IF Has(w, "temperature") THEN {"temperature_celsius"} ELSE {})
                \cup (IF Has(w, "humidity") THEN {"humidity_percent"} ELSE {})
  IN  [k \in keys |->
         CASE k = "location_id"         -> location.id
           [] k = "reading_date"        -> date
           [] k = "salinity_level"      -> s
           [] k = "soil_moisture"       -> soilMoisture
           [] k = "rainfall_mm"         -> w.rainfall
           [] k = "temperature_celsius" -> w.temperature
           [] k = "humidity_percent"    -> w.humidity
           [] k = "ndvi_value"          -> 5000 + (rnd * 3) \div 10
           [] k = "risk_level"          -> RiskLevel(s)
           [] k = "data_source"         -> "github_actions"
           [] OTHER                     -> TRUE]

\* AlertSeverity with strict comparisons: salinity > 8, salinity > 4.
AlertSeverityStrict(s) ==
  IF s > 80000 THEN "critical"
  ELSE IF s > 40000 THEN "warning"
  ELSE "none"

\* Lines 85 and 94: the severity createAlert gives a salinity, "none" when
\* it builds no alert.
AlertSeverity(s) ==
  IF s >= 80000 THEN "critical"
  ELSE IF s >= 40000 THEN "warning"
  ELSE "none"

\* Lines 83-103: the alerts createAlert can build (none below 4 dS/m; the
\* candidates differ only in how toFixed(2) rounds the value in the message).
CreateAlert(locationId, location, s, date) ==
  IF AlertSeverity(s) = "none" THEN {}
  ELSE { [location_id    |-> locationId,
          alert_type     |-> "high_risk",
          severity       |-> AlertSeverity(s),
          message        |-> [headline |-> IF AlertSeverity(s) = "critical"
                                           THEN "CRITICAL" ELSE "HIGH RISK",
                              value    |-> v,
                              name     |-> location.name],
          recommendation |-> IF AlertSeverity(s) = "critical"
                             THEN "urgent leaching" ELSE "increase irrigation",
          alert_date     |-> date] : v \in ToFixed(s, 100) }

\* What the POST of a reading can come to (lines 64-74): the backend stores
\* it and answers; the backend answers with an error body, which
\* response.json() parses like any other; the request or the parse throws.
SaveOutcomes == {"stored", "rejected", "unreachable"}

\* What the POST of an alert can come to (lines 107-111): fetch resolves
\* whatever the HTTP status is, and throws when the backend is unreachable.
AlertOutcomes == {"stored", "rejected", "unreachable"}

\* An alert an earlier run left in the backend for location 1.
EarlierAlert ==
  [location_id |-> 1, alert_type |-> "high_risk", severity |-> "warning",
   message |-> [headline |-> "HIGH RISK", value |-> 43000, name |-> 1],
   recommendation |-> "increase irrigation", alert_date |-> 0]

\* A call made for location i (0: for no location).
Call(kind, i) == [kind |-> kind, loc |-> i]

\* A line printed about location i (0: about the run).
Say(msg, i) == [msg |-> msg, loc |-> i]

ApiInit ==
  /\ pc = "start"
  /\ locations = <<>>
  /\ idx = 1
  /\ weatherData = Null
  /\ salinity = 0
  /\ readingData = Null
  /\ saved = Null
  /\ outstanding = {}
  /\ trace = <<>>
  /\ console = <<>>
  /\ sinkReadings = <<>>
  /\ sinkAlerts \in {<<>>, <<EarlierAlert>>}
  /\ exitCode = 0
  /\ today = 1

\* Lines 121-125: main calls getLocations, which sends its request (line 52).
ApiCallGetLocations ==
  /\ pc = "start"
  /\ pc' = "getLocations"
  /\ outstanding' = outstanding \cup {Call("locations", 0)}
  /\ trace' = Append(trace, Call("locations", 0))
  /\ console' = Append(console, Say("Starting hourly data update", 0))
  /\ UNCHANGED <<locations, idx, weatherData, salinity, readingData, saved,
                 sinkReadings, sinkAlerts, exitCode, today>>
  /\ UNCHANGED <<fileVars, unit>>

\* Lines 52-54 and 126-128: the registry answers with an array of locations.
ApiGetLocationsReturns ==
  /\ pc = "getLocations"
  /\ \E n \in 0..MaxLocations : locations' = Registry(n)
  /\ idx' = 1
  /\ pc' = "loop"
  /\ outstanding' = outstanding \ {Call("locations", 0)}
  /\ console' = Append(console, Say("Found location(s)", 0))
  /\ UNCHANGED <<weatherData, salinity, readingData, saved, trace,
                 sinkReadings, sinkAlerts, exitCode, today>>
  /\ UNCHANGED <<fileVars, unit>>

\* Lines 55-58 and 126: the request or the parse throws; getLocations logs
\* the error and returns [], and main goes on with no location.
ApiGetLocationsFails ==
  /\ pc = "getLocations"
  /\ locations' = <<>>
  /\ idx' = 1
  /\ pc' = "loop"
  /\ outstanding' = outstanding \ {Call("locations", 0)}
  /\ console' = console \o << Say("Error fetching locations", 0),
                              Say("Found location(s)", 0) >>
  /\ UNCHANGED <<weatherData, salinity, readingData, saved, trace,
                 sinkReadings, sinkAlerts, exitCode, today>>
  /\ UNCHANGED <<fileVars, unit>>

\* Lines 54, 126-128 and 188-191: the registry answers with JSON that is no
\* array (an error object).  getLocations returns it, for...of throws a
\* TypeError on it, main's promise rejects and the catch handler exits 1.
ApiGetLocationsNotIterable ==
  /\ pc = "getLocations"
  /\ pc' = "exited"
  /\ exitCode' = 1
  /\ outstanding' = outstanding \ {Call("locations", 0)}
  /\ console' = console \o << Say("Found location(s)", 0),
                              Say("Fatal error", 0) >>
  /\ UNCHANGED <<locations, idx, weatherData, salinity, readingData, saved,
                 trace, sinkReadings, sinkAlerts, today>>
  /\ UNCHANGED <<fileVars, unit>>

\* Lines 128-132 and 16: the loop takes the next location and
\* fetchWeatherData sends its request.
ApiCallWeather ==
  /\ pc = "loop"
  /\ idx <= Len(locations)
  /\ pc' = "weather"
  /\ outstanding' = outstanding \cup {Call("weather", idx)}
  /\ trace' = Append(trace, Call("weather", idx))
  /\ console' = Append(console, Say("Processing", idx))
  /\ weatherData' = Null
  /\ salinity' = 0
  /\ readingData' = Null
  /\ saved' = Null
  /\ UNCHANGED <<locations, idx, sinkReadings, sinkAlerts, exitCode, today>>
  /\ UNCHANGED <<fileVars, unit>>

\* ApiWeatherFails with break for continue: the loop ends at the failure.
ApiWeatherFailsBreaks ==
  /\ pc = "weather"
  /\ \E response \in ApiWeatherResponses :
       /\ ApiFetchWeatherData(response) = Null
       /\ weatherData' = Null
  /\ idx' = Len(locations) + 1
  /\ pc' = "loop"
  /\ outstanding' = outstanding \ {Call("weather", idx)}
  /\ console' = console \o << Say("Weather fetch error", idx),
                              Say("Failed to fetch weather", idx) >>
  /\ UNCHANGED <<locations, salinity, readingData, saved, trace,
                 sinkReadings, sinkAlerts, exitCode, today>>
  /\ UNCHANGED <<fileVars, unit>>

\* ApiWeatherFails with one retry: after the first failure the loop stays
\* at the location and the request is sent again.
ApiWeatherFailsRetries ==
  /\ pc = "weather"
  /\ \E response \in ApiWeatherResponses :
       /\ ApiFetchWeatherData(response) = Null
       /\ weatherData' = Null
  /\ idx' = IF Len(SelectSeq(trace, LAMBDA c : c = Call("weather", idx))) < 2
            THEN idx ELSE idx + 1
  /\ pc' = "loop"
  /\ outstanding' = outstanding \ {Call("weather", idx)}
  /\ console' = console \o << Say("Weather fetch error", idx),
                              Say("Failed to fetch weather", idx) >>
  /\ UNCHANGED <<locations, salinity, readingData, saved, trace,
                 sinkReadings, sinkAlerts, exitCode, today>>
  /\ UNCHANGED <<fileVars, unit>>

\* Lines 24-27 and 134-137: fetchWeatherData logs the error and returns
\* null; the loop continues with the next location.
ApiWeatherFails ==
  /\ pc = "weather"
  /\ \E response \in ApiWeatherResponses :
       /\ ApiFetchWeatherData(response) = Null
       /\ weatherData' = Null
  /\ idx' = idx + 1
  /\ pc' = "loop"
  /\ outstanding' = outstanding \ {Call("weather", idx)}
  /\ console' = console \o << Say("Weather fetch error", idx),
                              Say("Failed to fetch weather", idx) >>
  /\ UNCHANGED <<locations, salinity, readingData, saved, trace,
                 sinkReadings, sinkAlerts, exitCode, today>>
  /\ UNCHANGED <<fileVars, unit>>

\* Lines 19-23, 139-166 and 64: fetchWeatherData returns an observation;
\* main estimates, classifies, builds the reading and saveReading posts it.
ApiWeatherReturns ==
  /\ pc = "weather"
  /\ \E response \in ApiWeatherResponses, rnd1 \in ApiRandoms, rnd2 \in ApiRandoms :
       LET w            == ApiFetchWeatherData(response)
           soilMoisture == ApiSoilMoisture(w, rnd1)
           s            == ApiCalculateSalinity(w, soilMoisture)
       IN  /\ w # Null
           /\ weatherData' = w
           /\ salinity' = s
           /\ readingData' = ApiReadingData(locations[idx], w, soilMoisture, s,
                                            rnd2, today)
  /\ pc' = "save"
  /\ outstanding' = (outstanding \ {Call("weather", idx)}) \cup {Call("save", idx)}
  /\ trace' = Append(trace, Call("save", idx))
  /\ UNCHANGED <<locations, idx, saved, console, sinkReadings, sinkAlerts,
                 exitCode, today>>
  /\ UNCHANGED <<fileVars, unit>>

\* Line 74 and lines 168-172: saveReading returns the parsed answer, which
\* main takes for success.
ApiSaved(outcome) ==
  /\ outcome \in {"stored", "rejected"}
  /\ saved' = [answer |-> outcome]
  /\ sinkReadings' = IF outcome = "stored" THEN Append(sinkReadings, readingData)
                     ELSE sinkReadings
  /\ console' = Append(console, Say("Data saved", idx))

\* ApiSaveReturnsAlert with createAlert called without await: main arms the
\* timer while the alert's POST is still on its way.
ApiSaveReturnsAlertNotAwaited ==
  /\ pc = "save"
  /\ \E outcome \in SaveOutcomes : ApiSaved(outcome)
  /\ CreateAlert(locations[idx].id, locations[idx], salinity, today) # {}
  /\ pc' = "delay"
  /\ outstanding' = (outstanding \ {Call("save", idx)}) \cup {Call("alert", idx)}
  /\ trace' = trace \o << Call("createAlert", idx), Call("alert", idx),
                          Call("delay", idx) >>
  /\ UNCHANGED <<locations, idx, weatherData, salinity, readingData,
                 sinkAlerts, exitCode, today>>
  /\ UNCHANGED <<fileVars, unit>>

\* Lines 74, 168-175 and 105-107: the reading's POST is answered; main calls
\* createAlert, which posts the alert it built.
ApiSaveReturnsAlert ==
  /\ pc = "save"
  /\ \E outcome \in SaveOutcomes : ApiSaved(outcome)
  /\ CreateAlert(locations[idx].id, locations[idx], salinity, today) # {}
  /\ pc' = "alert"
  /\ outstanding' = (outstanding \ {Call("save", idx)}) \cup {Call("alert", idx)}
  /\ trace' = trace \o << Call("createAlert", idx), Call("alert", idx) >>
  /\ UNCHANGED <<locations, idx, weatherData, salinity, readingData,
                 sinkAlerts, exitCode, today>>
  /\ UNCHANGED <<fileVars, unit>>

\* Lines 74, 168-175, 105 and 181: the reading's POST is answered; main calls
\* createAlert, which builds no alert and returns; main arms the timer.
ApiSaveReturnsNoAlert ==
  /\ pc = "save"
  /\ \E outcome \in SaveOutcomes : ApiSaved(outcome)
  /\ CreateAlert(locations[idx].id, locations[idx], salinity, today) = {}
  /\ pc' = "delay"
  /\ outstanding' = outstanding \ {Call("save", idx)}
  /\ trace' = trace \o << Call("createAlert", idx), Call("delay", idx) >>
  /\ UNCHANGED <<locations, idx, weatherData, salinity, readingData,
                 sinkAlerts, exitCode, today>>
  /\ UNCHANGED <<fileVars, unit>>

\* ApiSaveFails with createAlert called outside the if (saved) branch.
ApiSaveFailsStillAlerts ==
  /\ pc = "save"
  /\ saved' = Null
  /\ IF CreateAlert(locations[idx].id, locations[idx], salinity, today) = {}
     THEN /\ pc' = "delay"
          /\ outstanding' = outstanding \ {Call("save", idx)}
          /\ trace' = trace \o << Call("createAlert", idx), Call("delay", idx) >>
     ELSE /\ pc' = "alert"
          /\ outstanding' = (outstanding \ {Call("save", idx)})
                               \cup {Call("alert", idx)}
          /\ trace' = trace \o << Call("createAlert", idx), Call("alert", idx) >>
  /\ console' = console \o << Say("Error saving reading", idx),
                              Say("Failed to save data", idx) >>
  /\ UNCHANGED <<locations, idx, weatherData, salinity, readingData,
                 sinkReadings, sinkAlerts, exitCode, today>>
  /\ UNCHANGED <<fileVars, unit>>

\* Lines 75-78, 176-178 and 181: the reading's POST throws; saveReading logs
\* the error and returns null; main logs the failure and arms the timer.
ApiSaveFails ==
  /\ pc = "save"
  /\ "unreachable" \in SaveOutcomes
  /\ saved' = Null
  /\ pc' = "delay"
  /\ outstanding' = outstanding \ {Call("save", idx)}
  /\ trace' = Append(trace, Call("delay", idx))
  /\ console' = console \o << Say("Error saving reading", idx),
                              Say("Failed to save data", idx) >>
  /\ UNCHANGED <<locations, idx, weatherData, salinity, readingData,
                 sinkReadings, sinkAlerts, exitCode, today>>
  /\ UNCHANGED <<fileVars, unit>>

\* ApiAlertReturns with a catch block that logs and throws again: the error
\* reaches main's catch handler, which exits 1.
ApiAlertReturnsRethrows ==
  /\ pc = "alert"
  /\ \E outcome \in AlertOutcomes,
        alert \in CreateAlert(locations[idx].id, locations[idx], salinity, today) :
       /\ sinkAlerts' = IF outcome = "stored" THEN Append(sinkAlerts, alert)
                        ELSE sinkAlerts
       /\ console' = Append(console,
                            IF outcome = "unreachable"
                            THEN Say("Error creating alert", idx)
                            ELSE Say("Alert created", idx))
       /\ pc' = IF outcome = "unreachable" THEN "exited" ELSE "delay"
       /\ exitCode' = IF outcome = "unreachable" THEN 1 ELSE exitCode
       /\ trace' = IF outcome = "unreachable" THEN trace
                   ELSE Append(trace, Call("delay", idx))
  /\ outstanding' = outstanding \ {Call("alert", idx)}
  /\ UNCHANGED <<locations, idx, weatherData, salinity, readingData, saved,
                 sinkReadings, today>>
  /\ UNCHANGED <<fileVars, unit>>

\* Lines 107-116 and 181: the alert's POST resolves or throws; createAlert
\* logs which and returns, and main arms the timer.
ApiAlertReturns ==
  /\ pc = "alert"
  /\ \E outcome \in AlertOutcomes,
        alert \in CreateAlert(locations[idx].id, locations[idx], salinity, today) :
       /\ sinkAlerts' = IF outcome = "stored" THEN Append(sinkAlerts, alert)
                        ELSE sinkAlerts
       /\ console' = Append(console,
                            IF outcome = "unreachable"
                            THEN Say("Error creating alert", idx)
                            ELSE Say("Alert created", idx))
  /\ pc' = "delay"
  /\ outstanding' = outstanding \ {Call("alert", idx)}
  /\ trace' = Append(trace, Call("delay", idx))
  /\ UNCHANGED <<locations, idx, weatherData, salinity, readingData, saved,
                 sinkReadings, exitCode, today>>
  /\ UNCHANGED <<fileVars, unit>>

\* Lines 181-182 and 128: the timer fires after 2000 ms and the loop moves on.
ApiDelayElapses ==
  /\ pc = "delay"
  /\ idx' = idx + 1
  /\ pc' = "loop"
  /\ UNCHANGED <<locations, weatherData, salinity, readingData, saved,
                 outstanding, trace, console, sinkReadings, sinkAlerts,
                 exitCode, today>>
  /\ UNCHANGED <<fileVars, unit>>

\* Lines 128 and 184-185: the loop is over, main returns and the process
\* ends with status 0.
ApiComplete ==
  /\ pc = "loop"
  /\ idx > Len(locations)
  /\ pc' = "exited"
  /\ exitCode' = 0
  /\ console' = Append(console, Say("Hourly update completed", 0))
  /\ UNCHANGED <<locations, idx, weatherData, salinity, readingData, saved,
                 outstanding, trace, sinkReadings, sinkAlerts, today>>
  /\ UNCHANGED <<fileVars, unit>>

----
\* The second script: the static locations and data/readings.json.

\* Line 321: slice(-500).
HistoryCap == 500

\* Lines 198-202.
LOCATIONS ==
  << [name |-> "North Field", latitude |-> 286139, longitude |-> 772090],
     [name |-> "South Field", latitude |-> 130827, longitude |-> 802707] >>

\* Responses of the weather provider to the second script.
FileWeatherResponses ==
  { [status |-> "unreachable"],
    [status |-> "ok", data |-> [cod |-> 401]],
    [status |-> "ok", data |-> Body([temp |-> 380000, humidity |-> 400000],
                                     ("1h" :> 20000))],
    [status |-> "ok", data |-> Body([temp |-> 250000, humidity |-> 400000],
                                     ("3h" :> 20000))],
    [status |-> "ok", data |-> Body([temp |-> 380000], ("1h" :> 20000))] }

\* The three Math.random() results of one iteration (lines 287, 238, 256).
FileRandomDraws == { <<9990, 4900, 5100>> }

\* Lines 207-223: fetchWeatherData of the second script.
FileFetchWeatherData(response) ==
  IF WeatherThrows(response) THEN [success |-> FALSE]
  ELSE Observation(response.data, [success |-> TRUE])

\* Whether the observation has the fields lines 305-306 call toFixed on.
Complete(w) == Has(w, "temperature") /\ Has(w, "humidity")

\* Line 287: 25 + rainfall * 0.5 + humidity * 0.15 + Math.random() * 5.
FileSoilMoisture(w, rnd) ==
  250000 + (w.rainfall \div 2) + ((w.humidity * 15) \div 100) + rnd * 5

\* Line 238: (Math.random() - 0.5) * 0.4.
SalinityJitter(rnd) == ((rnd - 5000) * 4) \div 10

\* Lines 226-241: calculateSalinity of the second script.
FileCalculateSalinity(w, soilMoisture, rnd) ==
  ClampSalinity(10000 + MoisturePenalty(soilMoisture)
                      + RainfallPenalty(w.rainfall)
                      + TemperaturePenalty(w)
                      + SalinityJitter(rnd))

\* ClampNDVI without its upper bound: Math.max(-0.2, ndvi).
ClampNDVILowerOnly(ndvi) == Max(-2000, ndvi)

\* Line 258: Math.max(-0.2, Math.min(ndvi, 0.9)).
ClampNDVI(ndvi) == Max(-2000, Min(ndvi, 9000))

\* Lines 244-259: calculateNDVI.
CalculateNDVI(w, soilMoisture, rnd) ==
  LET moisture == IF soilMoisture > 350000 THEN 2000
                  ELSE IF soilMoisture > 250000 THEN 1000
                  ELSE IF soilMoisture < 150000 THEN -2000
                  ELSE 0
      temp     == IF w.temperature > 200000 /\ w.temperature < 300000 THEN 1000
                  ELSE IF w.temperature > 350000 THEN -1500
                  ELSE 0
      rain     == IF w.rainfall > 100000 THEN 1000 ELSE 0
      jitter   == (rnd - 5000) \div 10
  IN  ClampNDVI(5000 + moisture + temp + rain + jitter)

\* new Date().toISOString().split('T')[0]: a day is 1000 ticks of the clock.
DateOf(t) == t \div 1000

\* Lines 296-310: the readings the object literal can come to (one, unless a
\* value lies half-way between two results of toFixed).
FileReading(location, w, soilMoisture, s, ndvi, t) ==
  { [timestamp           |-> t,
     reading_date        |-> DateOf(t),
     location_name       |-> location.name,
     latitude            |-> location.latitude,
     longitude           |-> location.longitude,
     salinity_level      |-> sl,
     soil_moisture       |-> sm,
     rainfall_mm         |-> rf,
     temperature_celsius |-> tc,
     humidity_percent    |-> hp,
     ndvi_value          |-> nv,
     risk_level          |-> RiskLevel(s),
     data_source         |-> "github_actions"] :
       sl \in ToFixed(s, 100), sm \in ToFixed(soilMoisture, 1000),
       rf \in ToFixed(w.rainfall, 1000), tc \in ToFixed(w.temperature, 1000),
       hp \in ToFixed(w.humidity, 10000), nv \in ToFixed(ndvi, 10) }

\* Lines 287-310: the readings one iteration can build from an observation.
FileEstimate(location, w, draw, t) ==
  LET soilMoisture == FileSoilMoisture(w, draw[1])
      s            == FileCalculateSalinity(w, soilMoisture, draw[2])
      ndvi         == CalculateNDVI(w, soilMoisture, draw[3])
  IN  FileReading(location, w, soilMoisture, s, ndvi, t)

\* AllData cut at the wrong end: slice(0, 500).
AllDataKeepsFirst(existingData, newReadings) ==
  LET all == existingData \o newReadings
  IN  IF Len(all) <= HistoryCap THEN all ELSE SubSeq(all, 1, HistoryCap)

\* Line 321: [...existingData, ...newReadings].slice(-500).
AllData(existingData, newReadings) ==
  LET all == existingData \o newReadings
  IN  IF Len(all) <= HistoryCap THEN all
      ELSE SubSeq(all, Len(all) - HistoryCap + 1, Len(all))

\* Reading k of the history earlier runs left in the file.
EarlierReading(k) ==
  [timestamp |-> k, reading_date |-> DateOf(k), location_name |-> "North Field",
   latitude |-> 286139, longitude |-> 772090, salinity_level |-> 28000,
   soil_moisture |-> 320000, rainfall_mm |-> 20000,
   temperature_celsius |-> 380000, humidity_percent |-> 400000,
   ndvi_value |-> 4500, risk_level |-> "moderate",
   data_source |-> "github_actions"]

\* The lengths of that history: none, and at and just under the cap.
EarlierLengths == {0, HistoryCap - 1, HistoryCap}

Runs == 1..MaxRuns

\* A run of the second script in the state given by where.  seen and wrote
\* are history: how many times the file had been written when the run read
\* it, and which write of the file the run's own was (0: none).
Run(where) ==
  [pc |-> where, idx |-> 1, existingData |-> <<>>, newReadings |-> <<>>,
   calls |-> <<>>, console |-> <<>>, exitCode |-> 0, seen |-> 0, wrote |-> 0]

\* The writes of the file so far (line 324).
FileWrites == Cardinality({q \in Runs : runs[q].wrote > 0})

FileInit ==
  /\ \E n \in EarlierLengths :
       /\ fileExists = (n > 0)
       /\ fileContent = [k \in 1..n |-> EarlierReading(k)]
  /\ runs = [r \in Runs |-> Run("idle")]
  /\ now = HistoryCap + 1

\* Lines 262-275: a run starts when the one before it has ended; it reads
\* the file if there is one.  JSON.parse gives back the array that
\* JSON.stringify wrote (line 324): every field of a reading is a string or
\* a finite number.
FileLoad(r) ==
  /\ runs[r].pc = "idle"
  /\ \A q \in Runs : q < r => runs[q].pc = "exited"
  /\ runs' = [runs EXCEPT ![r].pc = "loop",
                          ![r].existingData = IF fileExists THEN fileContent
                                              ELSE <<>>,
                          ![r].seen = FileWrites,
                          ![r].console = Append(@, Say("Starting data collection", 0))]
  /\ UNCHANGED <<fileExists, fileContent, now>>
  /\ UNCHANGED <<apiVars, unit>>

\* Lines 262-275 when nothing keeps two runs apart (a run started by hand
\* while the scheduled one is at work): the run starts whatever the others
\* are doing.  Runs are numbered in the order they start.
FileLoadOverlapping(r) ==
  /\ runs[r].pc = "idle"
  /\ \A q \in Runs : q < r => runs[q].pc # "idle"
  /\ runs' = [runs EXCEPT ![r].pc = "loop",
                          ![r].existingData = IF fileExists THEN fileContent
                                              ELSE <<>>,
                          ![r].seen = FileWrites,
                          ![r].console = Append(@, Say("Starting data collection", 0))]
  /\ UNCHANGED <<fileExists, fileContent, now>>
  /\ UNCHANGED <<apiVars, unit>>

\* Lines 277-280 and 210: the loop takes the next location and
\* fetchWeatherData sends its request.
FileCallWeather(r) ==
  /\ runs[r].pc = "loop"
  /\ runs[r].idx <= Len(LOCATIONS)
  /\ runs' = [runs EXCEPT ![r].pc = "weather",
                          ![r].calls = Append(@, Call("weather", runs[r].idx)),
                          ![r].console = Append(@, Say("Processing", runs[r].idx))]
  /\ UNCHANGED <<fileExists, fileContent, now>>
  /\ UNCHANGED <<apiVars, unit>>

\* Lines 219-222 and 282-285: fetchWeatherData logs the error and returns
\* {success: false}; the loop continues with the next location.
FileWeatherFails(r) ==
  /\ runs[r].pc = "weather"
  /\ \E response \in FileWeatherResponses :
       ~FileFetchWeatherData(response).success
  /\ runs' = [runs EXCEPT ![r].pc = "loop", ![r].idx = @ + 1,
                          ![r].console = @ \o
                             << Say("Weather API Error", runs[r].idx),
                                Say("Failed to fetch weather", runs[r].idx) >>]
  /\ UNCHANGED <<fileExists, fileContent, now>>
  /\ UNCHANGED <<apiVars, unit>>

\* FileWeatherReturns saving as it goes: the file is rewritten with every
\* reading collected.
FileWeatherReturnsPersists(r) ==
  /\ runs[r].pc = "weather"
  /\ \E response \in FileWeatherResponses, draw \in FileRandomDraws :
       LET w == FileFetchWeatherData(response)
       IN  /\ w.success
           /\ Complete(w)
           /\ \E reading \in FileEstimate(LOCATIONS[runs[r].idx], w, draw, now) :
                /\ runs' = [runs EXCEPT ![r].pc = "loop", ![r].idx = @ + 1,
                                        ![r].newReadings = Append(@, reading),
                                        ![r].console = Append(@,
                                           Say("Collected data", runs[r].idx))]
                /\ fileContent' = AllData(runs[r].existingData,
                                          Append(runs[r].newReadings, reading))
  /\ fileExists' = TRUE
  /\ now' = now + 1
  /\ UNCHANGED <<apiVars, unit>>

\* Lines 213-218 and 287-318: the observation has every field; the reading
\* is built and pushed, and the loop moves on.
FileWeatherReturns(r) ==
  /\ runs[r].pc = "weather"
  /\ \E response \in FileWeatherResponses, draw \in FileRandomDraws :
       LET w == FileFetchWeatherData(response)
       IN  /\ w.success
           /\ Complete(w)
           /\ \E reading \in FileEstimate(LOCATIONS[runs[r].idx], w, draw, now) :
                runs' = [runs EXCEPT ![r].pc = "loop", ![r].idx = @ + 1,
                                     ![r].newReadings = Append(@, reading),
                                     ![r].console = Append(@,
                                        Say("Collected data", runs[r].idx))]
  /\ now' = now + 1
  /\ UNCHANGED <<fileExists, fileContent>>
  /\ UNCHANGED <<apiVars, unit>>

\* Lines 213-218, 287-289, 305-306 and 330-333: the observation lacks
\* temperature or humidity.  The estimators run on it (with undefined and
\* NaN), then undefined.toFixed throws a TypeError, main's promise rejects
\* and the catch handler exits 1; the file is not written.
FileWeatherIncomplete(r) ==
  /\ runs[r].pc = "weather"
  /\ \E response \in FileWeatherResponses :
       LET w == FileFetchWeatherData(response)
       IN  w.success /\ ~Complete(w)
  /\ runs' = [runs EXCEPT ![r].pc = "exited", ![r].exitCode = 1,
                          ![r].console = Append(@, Say("Error", runs[r].idx))]
  /\ UNCHANGED <<fileExists, fileContent, now>>
  /\ UNCHANGED <<apiVars, unit>>

\* FileWrite reading the file again at the write: the run's readings are
\* appended to what the file holds then.
FileWriteRereads(r) ==
  /\ runs[r].pc = "loop"
  /\ runs[r].idx > Len(LOCATIONS)
  /\ fileContent' = AllData(IF fileExists THEN fileContent ELSE <<>>,
                            runs[r].newReadings)
  /\ fileExists' = TRUE
  /\ runs' = [runs EXCEPT ![r].pc = "exited", ![r].exitCode = 0,
                          ![r].wrote = FileWrites + 1,
                          ![r].console = Append(@, Say("Saved new readings", 0))]
  /\ UNCHANGED now
  /\ UNCHANGED <<apiVars, unit>>

\* Lines 320-328: the loop is over; the last 500 readings replace the file
\* and the process ends with status 0.
FileWrite(r) ==
  /\ runs[r].pc = "loop"
  /\ runs[r].idx > Len(LOCATIONS)
  /\ fileContent' = AllData(runs[r].existingData, runs[r].newReadings)
  /\ fileExists' = TRUE
  /\ runs' = [runs EXCEPT ![r].pc = "exited", ![r].exitCode = 0,
                          ![r].wrote = FileWrites + 1,
                          ![r].console = Append(@, Say("Saved new readings", 0))]
  /\ UNCHANGED now
  /\ UNCHANGED <<apiVars, unit>>

----
\* Single calls of the estimator and of createAlert, on inputs drawn from
\* the bands of every ladder, their boundaries and values far outside.

Temperatures == {-100000, 200000, 250000, 300000, 310000, 350000, 380000, 10000000}

Humidities == {0, 400000, 1000000}

Rainfalls == {-200000, 0, 20000, 50000, 101000, 150000, 2000000}

\* Math.random() for the soil moisture, the salinity jitter and the NDVI
\* jitter (the first script uses the first and the third).
Draws == {0, 5000, 9990} \X {0, 4900, 5000, 9990} \X {0, 5000, 9990}

\* Observations as fetchWeatherData returns them: complete, and of a body
\* whose "main" has no "temp".
UnitObservations ==
  { [temperature |-> t, humidity |-> h, rainfall |-> r] :
      t \in Temperatures, h \in Humidities, r \in Rainfalls }
  \cup { [humidity |-> h, rainfall |-> r] : h \in Humidities, r \in Rainfalls }

\* Salinities createAlert is called with.
AlertSalinities == {5000, 39900, 40000, 43250, 50000, 79900, 80000, 85000}

EstimateInit ==
  unit \in { [mode |-> "estimate", stage |-> "input", w |-> w, draw |-> d] :
               w \in UnitObservations, d \in Draws }

\* What one iteration computed: the estimates and the reading built of them.
Estimated(stage, soilMoisture, s, ndvi, reading) ==
  [mode |-> "estimate", stage |-> stage, w |-> unit.w, draw |-> unit.draw,
   soilMoisture |-> soilMoisture, salinity |-> s, ndvi |-> ndvi,
   reading |-> reading]

\* Lines 139-163: the estimates and the reading of the first script.
EstimateApi ==
  /\ unit.mode = "estimate"
  /\ unit.stage = "input"
  /\ LET soilMoisture == ApiSoilMoisture(unit.w, unit.draw[1])
         s            == ApiCalculateSalinity(unit.w, soilMoisture)
         reading      == ApiReadingData(RegistryLocation(1), unit.w,
                                        soilMoisture, s, unit.draw[3], today)
     IN  unit' = Estimated("api", soilMoisture, s, reading.ndvi_value, reading)
  /\ UNCHANGED <<apiVars, fileVars>>

\* Lines 287-310: the estimates and the reading of the second script.
EstimateFile ==
  /\ unit.mode = "estimate"
  /\ unit.stage = "input"
  /\ Complete(unit.w)
  /\ LET soilMoisture == FileSoilMoisture(unit.w, unit.draw[1])
         s            == FileCalculateSalinity(unit.w, soilMoisture, unit.draw[2])
         ndvi         == CalculateNDVI(unit.w, soilMoisture, unit.draw[3])
     IN  \E reading \in FileReading(LOCATIONS[1], unit.w, soilMoisture, s, ndvi, now) :
           unit' = Estimated("file", soilMoisture, s, ndvi, reading)
  /\ UNCHANGED <<apiVars, fileVars>>

CreateAlertInit ==
  unit \in { [mode |-> "createAlert", stage |-> "input", salinity |-> s,
              location |-> RegistryLocation(i), posts |-> <<>>] :
               s \in AlertSalinities, i \in 1..2 }

\* Lines 82-117: createAlert(location.id, location, salinity), from the call
\* to the return.  posts are the POSTs it sent.
UnitCreateAlert ==
  /\ unit.mode = "createAlert"
  /\ unit.stage = "input"
  /\ LET alerts == CreateAlert(unit.location.id, unit.location, unit.salinity, today)
     IN  IF alerts = {}
         THEN /\ unit' = [unit EXCEPT !.stage = "returned"]
              /\ UNCHANGED <<sinkAlerts, console>>
         ELSE \E alert \in alerts, outcome \in AlertOutcomes :
                /\ unit' = [unit EXCEPT !.stage = "returned",
                                        !.posts = Append(@, alert)]
                /\ sinkAlerts' = IF outcome = "stored" THEN Append(sinkAlerts, alert)
                                 ELSE sinkAlerts
                /\ console' = Append(console,
                                     IF outcome = "unreachable"
                                     THEN Say("Error creating alert", unit.location.id)
                                     ELSE Say("Alert created", unit.location.id))
  /\ UNCHANGED <<pc, locations, idx, weatherData, salinity, readingData, saved,
                 outstanding, trace, sinkReadings, exitCode, today>>
  /\ UNCHANGED fileVars

\* Soil moistures calculateSalinity is called with: the bands of its ladder
\* and their boundaries.
Moistures == {150000, 199990, 200000, 250000, 299990, 300000, 400000}

\* Two calls of calculateSalinity whose arguments differ in one input at most.
SalinityArguments ==
  LET W(t, r) == [temperature |-> t, humidity |-> 400000, rainfall |-> r]
      Pair(w, m, w2, m2) ==
        [mode |-> "calculateSalinity", stage |-> "input",
         w |-> w, soilMoisture |-> m, w2 |-> w2, soilMoisture2 |-> m2]
  IN  UNION { { Pair(W(t, r), m, W(t, r), m2) : m2 \in Moistures }
                \cup { Pair(W(t, r), m, W(t, r2), m) : r2 \in Rainfalls }
                \cup { Pair(W(t, r), m, W(t2, r), m) : t2 \in Temperatures } :
              t \in Temperatures, r \in Rainfalls, m \in Moistures }

CalculateSalinityInit == unit \in SalinityArguments

\* Lines 31-47: calculateSalinity(w, soilMoisture) and
\* calculateSalinity(w2, soilMoisture2) of the first script.
UnitCalculateSalinity ==
  /\ unit.mode = "calculateSalinity"
  /\ unit.stage = "input"
  /\ unit' = [mode |-> "calculateSalinity", stage |-> "returned",
              w |-> unit.w, soilMoisture |-> unit.soilMoisture,
              w2 |-> unit.w2, soilMoisture2 |-> unit.soilMoisture2,
              salinity |-> ApiCalculateSalinity(unit.w, unit.soilMoisture),
              salinity2 |-> ApiCalculateSalinity(unit.w2, unit.soilMoisture2)]
  /\ UNCHANGED <<apiVars, fileVars>>

----
\* The specification: one run of the first script, runs of the second one
\* after the other, or a single call.

\* The first script is not running.
ApiOff ==
  /\ pc = "off"
  /\ locations = <<>>
  /\ idx = 1
  /\ weatherData = Null
  /\ salinity = 0
  /\ readingData = Null
  /\ saved = Null
  /\ outstanding = {}
  /\ trace = <<>>
  /\ console = <<>>
  /\ sinkReadings = <<>>
  /\ exitCode = 0
  /\ today = 1

\* The second script is not running.
FileOff ==
  /\ fileExists = FALSE
  /\ fileContent = <<>>
  /\ runs = [r \in Runs |-> Run("off")]
  /\ now = HistoryCap + 1

UnitOff == unit = [mode |-> "off"]

Init ==
  \/ ApiInit /\ FileOff /\ UnitOff
  \/ FileInit /\ ApiOff /\ sinkAlerts = <<>> /\ UnitOff
  \/ EstimateInit /\ ApiOff /\ sinkAlerts = <<>> /\ FileOff
  \/ CreateAlertInit /\ ApiOff /\ sinkAlerts \in {<<>>, <<EarlierAlert>>} /\ FileOff
  \/ CalculateSalinityInit /\ ApiOff /\ sinkAlerts = <<>> /\ FileOff

Next ==
  \/ ApiCallGetLocations
  \/ ApiGetLocationsReturns
  \/ ApiGetLocationsFails
  \/ ApiGetLocationsNotIterable
  \/ ApiCallWeather
  \/ ApiWeatherFails
  \/ ApiWeatherReturns
  \/ ApiSaveReturnsAlert
  \/ ApiSaveReturnsNoAlert
  \/ ApiSaveFails
  \/ ApiAlertReturns
  \/ ApiDelayElapses
  \/ ApiComplete
  \/ \E r \in Runs : FileLoad(r)
  \/ \E r \in Runs : FileCallWeather(r)
  \/ \E r \in Runs : FileWeatherFails(r)
  \/ \E r \in Runs : FileWeatherReturns(r)
  \/ \E r \in Runs : FileWeatherIncomplete(r)
  \/ \E r \in Runs : FileWrite(r)
  \/ EstimateApi
  \/ EstimateFile
  \/ UnitCreateAlert
  \/ UnitCalculateSalinity

Spec == Init /\ [][Next]_vars

\* Runs of the second script that nothing keeps apart: they find no file,
\* or the file two readings long that a first run left.
OverlapLengths == {0, Len(LOCATIONS)}

InitOverlap ==
  /\ \E n \in OverlapLengths :
       /\ fileExists = (n > 0)
       /\ fileContent = [k \in 1..n |-> EarlierReading(k)]
  /\ runs = [r \in Runs |-> Run("idle")]
  /\ now = HistoryCap + 1
  /\ ApiOff
  /\ sinkAlerts = <<>>
  /\ UnitOff

NextOverlap ==
  \/ \E r \in Runs : FileLoadOverlapping(r)
  \/ \E r \in Runs : FileCallWeather(r)
  \/ \E r \in Runs : FileWeatherFails(r)
  \/ \E r \in Runs : FileWeatherReturns(r)
  \/ \E r \in Runs : FileWeatherIncomplete(r)
  \/ \E r \in Runs : FileWrite(r)

SpecOverlap == InitOverlap /\ [][NextOverlap]_vars

----
\* Properties.

Range(seq) == {seq[k] : k \in DOMAIN seq}

Count(seq, x) == Cardinality({k \in DOMAIN seq : seq[k] = x})

\* result is the last min(cap, |all|) elements of all, in order.
IsTail(result, all, cap) ==
  /\ Len(result) = Min(cap, Len(all))
  /\ \A k \in 1..Len(result) : result[k] = all[Len(all) - Len(result) + k]

\* The place in LOCATIONS of the location a reading is of.
LocationIndex(reading) ==
  CHOOSE k \in DOMAIN LOCATIONS : LOCATIONS[k].name = reading.location_name

\* The readings are of different locations, in the order of LOCATIONS.
InLocationOrder(readings) ==
  \A i, j \in DOMAIN readings :
    i < j => LocationIndex(readings[i]) < LocationIndex(readings[j])

\* Run r of the second script writes the file in this step.
Writes(r) ==
  runs[r].pc = "loop" /\ runs'[r].pc = "exited" /\ runs'[r].exitCode = 0

\* C1: when a run of the second script ends, the file it leaves holds the
\* last min(500, |H| + |R|) elements of H followed by R, where H is what the
\* file held before and R the run's readings, which are in the order of the
\* locations; so the file never holds more than 500 readings and loses the
\* oldest first.
C1_HistoryIsTailOfAppend ==
  [][\A r \in Runs :
       Writes(r) =>
         LET H == IF fileExists THEN fileContent ELSE <<>>
             R == runs[r].newReadings
         IN  /\ fileExists'
             /\ IsTail(fileContent', H \o R, HistoryCap)
             /\ InLocationOrder(R)
             /\ Len(fileContent') <= HistoryCap]_vars

\* A run found a full file, collected two readings and wrote: the two
\* oldest readings are gone and the new ones are last.
C1_Witness ==
  \E r \in Runs :
    /\ runs[r].pc = "exited"
    /\ runs[r].exitCode = 0
    /\ Len(runs[r].existingData) = HistoryCap
    /\ Len(runs[r].newReadings) = 2
    /\ Len(fileContent) = HistoryCap
    /\ fileContent[1] = runs[r].existingData[3]
    /\ fileContent[HistoryCap] = runs[r].newReadings[2]

\* The first script logged that the weather fetch for location i failed.
ApiFetchFailed(i) == Say("Failed to fetch weather", i) \in Range(console)

\* Run r of the second script logged that the fetch for location i failed.
FileFetchFailed(r, i) ==
  Say("Failed to fetch weather", i) \in Range(runs[r].console)

\* C2: once the weather fetch for a location has failed, the loop has moved
\* past it; no reading was posted for it, createAlert was not called and no
\* alert posted for it, the backend holds no reading and no alert of this
\* run for it, no reading of it was collected or written to the file; and a
\* run that ends normally has sent the weather request of every later location.
C2_FetchFailureIsIsolated ==
  /\ \A i \in 1..Len(locations) :
       ApiFetchFailed(i) =>
         /\ idx > i
         /\ \A kind \in {"save", "createAlert", "alert"} :
              Call(kind, i) \notin Range(trace)
         /\ \A x \in Range(sinkReadings) : x.location_id # locations[i].id
         /\ \A a \in Range(sinkAlerts) :
              a.alert_date = today => a.location_id # locations[i].id
         /\ (pc = "exited" /\ exitCode = 0) =>
              \A j \in (i + 1)..Len(locations) : Call("weather", j) \in Range(trace)
  /\ \A r \in Runs : \A i \in 1..Len(LOCATIONS) :
       FileFetchFailed(r, i) =>
         /\ runs[r].idx > i
         /\ \A x \in Range(runs[r].newReadings) :
              x.location_name # LOCATIONS[i].name
         /\ (runs[r].pc = "exited" /\ runs[r].exitCode = 0) =>
              \A j \in (i + 1)..Len(LOCATIONS) :
                Call("weather", j) \in Range(runs[r].calls)
  /\ \A x \in Range(fileContent) :
       x.timestamp > HistoryCap =>
         \E r \in Runs : x \in Range(runs[r].newReadings)

\* The fetch for the first of two locations failed, and the run went on to
\* fetch, estimate and save the second and ended normally.
C2_Witness ==
  /\ pc = "exited"
  /\ exitCode = 0
  /\ Len(locations) = 2
  /\ ApiFetchFailed(1)
  /\ Call("weather", 2) \in Range(trace)
  /\ Say("Data saved", 2) \in Range(console)

C4_RegistryFailureExitsNonZero ==
  (pc = "exited" /\ Say("Error fetching locations", 0) \in Range(console))
    => exitCode # 0

\* The readings of the modelled runs: the one being posted, those the
\* backend stored, those collected and those written to the file.
RunReadings ==
  (IF readingData = Null THEN {} ELSE {readingData})
    \cup Range(sinkReadings)
    \cup UNION {Range(runs[r].newReadings) : r \in Runs}
    \cup {x \in Range(fileContent) : x.timestamp > HistoryCap}

\* Those, and the one a single call of the estimator built.
Readings ==
  RunReadings \cup (IF unit.mode = "estimate" /\ unit.stage # "input"
                    THEN {unit.reading} ELSE {})

\* C5 as claimed: an observation without temperature or humidity counts as
\* a failed fetch: no estimate and no reading is made of it, and the run
\* goes on with the next location (no run ends with an error).
C5_IncompleteObservationIsSkipped ==
  /\ pc \in {"save", "alert", "delay"} => Complete(weatherData)
  /\ \A x \in Range(sinkReadings) :
       Has(x, "temperature_celsius") /\ Has(x, "humidity_percent")
  /\ \A r \in Runs : runs[r].exitCode = 0

\* Between any two weather requests of calls there is a delay.
DelayedBetweenWeather(calls) ==
  \A p, q \in DOMAIN calls :
    (p < q /\ calls[p].kind = "weather" /\ calls[q].kind = "weather") =>
      \E d \in DOMAIN calls : p < d /\ d < q /\ calls[d].kind = "delay"

\* C6 as claimed: in a run, a delay lies between the weather request for
\* one location and the weather request for the next, whether the first
\* succeeded or failed.
C6_DelayBetweenWeatherRequests ==
  /\ DelayedBetweenWeather(trace)
  /\ \A r \in Runs : DelayedBetweenWeather(runs[r].calls)

\* C7: every reading has a salinity_level from 0.5 to 8.0 and an ndvi_value
\* from -0.2 to 0.9, whatever the weather values and the random draws.
C7_ReadingsWithinBounds ==
  \A x \in Readings :
    /\ 5000 <= x.salinity_level /\ x.salinity_level <= 80000
    /\ -2000 <= x.ndvi_value /\ x.ndvi_value <= 9000

\* The second script's estimate for wet soil, mild temperature, heavy rain
\* and the largest jitter: 0.95 before the clamp, 0.9 in the reading.
C7_Witness ==
  /\ unit.mode = "estimate"
  /\ unit.stage = "file"
  /\ unit.w.temperature = 250000
  /\ unit.w.rainfall = 2000000
  /\ unit.draw[3] = 9990
  /\ unit.soilMoisture > 350000
  /\ unit.reading.ndvi_value = 9000

\* The tier the claim gives a salinity.
ClaimedTier(s) ==
  CASE s >= 80000               -> "critical"
    [] 40000 <= s /\ s < 80000  -> "high"
    [] 20000 <= s /\ s < 40000  -> "moderate"
    [] s < 20000                -> "low"

\* C8 as claimed: the risk_level of every reading of a run is the tier of
\* its salinity_level: critical from 8, high from 4, moderate from 2, else low.
C8_RiskTierOfSalinityLevel ==
  \A x \in RunReadings : x.risk_level = ClaimedTier(x.salinity_level)

\* The alerts of this run the backend holds for location i.
AlertsToday(id) ==
  {k \in DOMAIN sinkAlerts :
     sinkAlerts[k].alert_date = today /\ sinkAlerts[k].location_id = id}

\* C9: a call of createAlert posts one alert when the salinity is 4 or more
\* and none when it is less; the alert is critical from 8 and a warning
\* below; an alert an earlier run left for the location changes nothing.
C9_AlertDecidedBySalinity ==
  /\ (unit.mode = "createAlert" /\ unit.stage = "returned") =>
       /\ Len(unit.posts) = IF unit.salinity >= 40000 THEN 1 ELSE 0
       /\ \A a \in Range(unit.posts) :
            /\ a.location_id = unit.location.id
            /\ a.severity = "critical" <=> unit.salinity >= 80000
            /\ a.severity = "warning" <=>
                 (40000 <= unit.salinity /\ unit.salinity < 80000)
       /\ Cardinality(AlertsToday(unit.location.id)) <= Len(unit.posts)
  /\ (pc \in {"alert", "delay"} /\ Call("createAlert", idx) \in Range(trace)) =>
       /\ Count(trace, Call("alert", idx)) = IF salinity >= 40000 THEN 1 ELSE 0
       /\ \A k \in AlertsToday(locations[idx].id) :
            /\ sinkAlerts[k].severity = "critical" <=> salinity >= 80000
            /\ sinkAlerts[k].severity = "warning" <=>
                 (40000 <= salinity /\ salinity < 80000)

\* createAlert was called with 8.5 dS/m for a location an earlier run had
\* alerted on, and the backend now holds the earlier warning and a new
\* critical alert.
C9_Witness ==
  /\ unit.mode = "createAlert"
  /\ unit.stage = "returned"
  /\ unit.salinity = 85000
  /\ unit.location.id = EarlierAlert.location_id
  /\ Len(sinkAlerts) = 2
  /\ sinkAlerts[1] = EarlierAlert
  /\ sinkAlerts[2].severity = "critical"

\* C10: when the POST of a location's alert has failed, the process has not
\* ended with an error; the location's reading was posted once, and the
\* backend still holds it if it stored it; main went on to the delay, and a
\* run that has ended has sent the weather request of every later location.
C10_AlertFailureIsLocal ==
  \A i \in 1..Len(locations) :
    Say("Error creating alert", i) \in Range(console) =>
      /\ exitCode = 0
      /\ Count(trace, Call("save", i)) = 1
      /\ Cardinality({k \in DOMAIN sinkReadings :
                        sinkReadings[k].location_id = locations[i].id}) <= 1
      /\ (i = idx /\ saved = [answer |-> "stored"]) =>
           Count(sinkReadings, readingData) = 1
      /\ Call("delay", i) \in Range(trace)
      /\ pc = "exited" =>
           \A j \in (i + 1)..Len(locations) : Call("weather", j) \in Range(trace)

\* The alert of the first of two locations could not be posted; its reading
\* is in the backend, and the run went on to the second location and ended
\* normally.
C10_Witness ==
  /\ pc = "exited"
  /\ exitCode = 0
  /\ Len(locations) = 2
  /\ Say("Error creating alert", 1) \in Range(console)
  /\ \E x \in Range(sinkReadings) : x.location_id = locations[1].id
  /\ Call("weather", 2) \in Range(trace)

\* C11 as claimed: a run that got its list of locations ends with status 0,
\* whatever happens to the calls made for a location.  (The first script has
\* its list once getLocations has returned an array; the second has it from
\* the start.)
C11_ExitZeroOnceLocationsObtained ==
  [][/\ (pc' = "exited" /\ pc \notin {"exited", "getLocations"}) => exitCode' = 0
     /\ \A r \in Runs :
          (runs'[r].pc = "exited" /\ runs[r].pc # "exited") =>
            runs'[r].exitCode = 0]_vars

\* The locations whose iteration the first script's loop has entered.
ApiEntered ==
  {i \in 1..Len(locations) : i < idx \/ (i = idx /\ pc # "loop")}

\* The locations whose iteration run r of the second script has entered.
FileEntered(r) ==
  {i \in 1..Len(LOCATIONS) :
     i < runs[r].idx \/ (i = runs[r].idx /\ runs[r].pc \notin {"idle", "off", "loop"})}

\* C12: in a run the weather request of a location is sent once when the
\* loop enters its iteration and never again, and its reading and its alert
\* are posted once at most, whichever call failed; a run that ends normally
\* has sent one weather request per location.
C12_NoCallIsRetried ==
  /\ \A i \in 1..Len(locations) :
       /\ Count(trace, Call("weather", i)) = IF i \in ApiEntered THEN 1 ELSE 0
       /\ Count(trace, Call("save", i)) <= 1
       /\ Count(trace, Call("alert", i)) <= 1
  /\ (pc = "exited" /\ exitCode = 0) => ApiEntered = 1..Len(locations)
  /\ \A r \in Runs :
       /\ \A i \in 1..Len(LOCATIONS) :
            Count(runs[r].calls, Call("weather", i))
              = IF i \in FileEntered(r) THEN 1 ELSE 0
       /\ (runs[r].pc = "exited" /\ runs[r].exitCode = 0) =>
            FileEntered(r) = 1..Len(LOCATIONS)

\* A run of two locations has ended: the fetch for the first failed and the
\* alert of the second could not be posted, and each call was made once.
C12_Witness ==
  /\ pc = "exited"
  /\ Len(locations) = 2
  /\ ApiFetchFailed(1)
  /\ Say("Error creating alert", 2) \in Range(console)
  /\ Count(trace, Call("weather", 1)) = 1
  /\ Count(trace, Call("alert", 2)) = 1

\* Runs r and q both wrote the file, r first, and q had read the file
\* before r wrote it.
Overlapped(r, q) ==
  /\ runs[r].wrote > 0
  /\ runs[q].wrote > runs[r].wrote
  /\ runs[q].seen < runs[r].wrote

\* C13: when two runs have both read the file before either wrote it, the
\* file the second writer leaves holds none of the readings of the first;
\* a run whose write no later writer had missed keeps all its readings in
\* the file (the runs of the model collect far fewer than 500 readings, so
\* none leaves the window).
C13_LostUpdateOnlyWhenOverlapping ==
  \A r \in Runs :
    /\ \A q \in Runs :
         (Overlapped(r, q) /\ runs[q].wrote = FileWrites) =>
           \A x \in Range(runs[r].newReadings) : x \notin Range(fileContent)
    /\ (runs[r].wrote > 0 /\ \A p, q \in Runs : ~Overlapped(p, q)) =>
         \A x \in Range(runs[r].newReadings) : x \in Range(fileContent)

\* Two runs read the same file; the first collected two readings and wrote
\* them, then the second wrote its own two: the first run's are gone.
C13_Witness ==
  \E r, q \in Runs :
    /\ Overlapped(r, q)
    /\ runs[q].seen = 0
    /\ runs[r].seen = 0
    /\ Len(runs[r].newReadings) = 2
    /\ Len(runs[q].newReadings) = 2
    /\ runs[r].newReadings[1] \notin Range(fileContent)
    /\ runs[q].newReadings[1] \in Range(fileContent)

\* The contributions the claim gives each ladder.
ClaimedMoisture(m) ==
  CASE m < 200000                -> 15000
    [] 200000 <= m /\ m < 300000 -> 8000
    [] OTHER                     -> 0

ClaimedRainfall(r) ==
  CASE r < 50000                -> 10000
    [] 50000 <= r /\ r < 150000 -> 5000
    [] OTHER                    -> 0

ClaimedTemperature(w) ==
  CASE Has(w, "temperature") /\ w.temperature > 350000 -> 8000
    [] Has(w, "temperature") /\ w.temperature > 300000
         /\ w.temperature <= 350000                    -> 4000
    [] OTHER                                           -> 0

\* 1.0 and the three contributions.
ClaimedSalinity(w, m) ==
  10000 + ClaimedMoisture(m) + ClaimedRainfall(w.rainfall) + ClaimedTemperature(w)

\* A single call of the estimator has returned.
UnitEstimated == unit.mode = "estimate" /\ unit.stage # "input"

\* The jitter the call added (none in the first script).
UnitJitter == IF unit.stage = "file" THEN SalinityJitter(unit.draw[2]) ELSE 0

\* C14: the salinity calculateSalinity returns is 1.0 plus one contribution
\* of each ladder (moisture: 1.5 below 20, 0.8 from 20 to below 30, else 0;
\* rainfall: 1.0 below 5, 0.5 from 5 to below 15, else 0; temperature: 0.8
\* above 35, 0.4 above 30 up to 35, else 0), plus the jitter in the second
\* script; the sum is never large or small enough for the clamp to change it.
C14_OneBandPerLadder ==
  UnitEstimated =>
    /\ unit.salinity - UnitJitter = ClaimedSalinity(unit.w, unit.soilMoisture)
    /\ 5000 < unit.salinity /\ unit.salinity < 80000

\* The first script's estimate for soil drier than 20 with rain under 5 and
\* 38 degrees: 1.0 + 1.5 + 1.0 + 0.8 = 4.3, the 1.5 without the 0.8.
C14_Witness ==
  /\ unit.mode = "estimate"
  /\ unit.stage = "api"
  /\ unit.soilMoisture < 200000
  /\ unit.w.rainfall < 50000
  /\ Has(unit.w, "temperature")
  /\ unit.w.temperature = 380000
  /\ unit.salinity = 43000

\* Temperature above 35 and rainfall below 5.
HotAndDry(w) ==
  Has(w, "temperature") /\ w.temperature > 350000 /\ w.rainfall < 50000

\* What the claim says of a salinity s before jitter, the tier given it and
\* the soil moisture it was computed of.
AtLeastModerate(s, tier, soilMoisture) ==
  /\ s >= 28000
  /\ tier \in {"moderate", "high"}
  /\ tier = "high" => MoisturePenalty(soilMoisture) > 0

\* C15: for an observation with temperature above 35 and rainfall below 5
\* the salinity before jitter is 2.8 at least and the tier of the reading is
\* moderate or high, never low and never critical; it is high only when the
\* soil-moisture ladder added a penalty.
C15_HotDryIsAtLeastModerate ==
  /\ (UnitEstimated /\ HotAndDry(unit.w)) =>
       AtLeastModerate(unit.salinity - UnitJitter, unit.reading.risk_level,
                       unit.soilMoisture)
  /\ (pc \in {"save", "alert", "delay"} /\ HotAndDry(weatherData)) =>
       AtLeastModerate(salinity, readingData.risk_level,
                       readingData.soil_moisture)

\* The first script's estimate for 38 degrees, 40 % humidity and 2 mm of
\* rain with soil moisture of 31: exactly 2.8, moderate.
C15_Witness ==
  /\ unit.mode = "estimate"
  /\ unit.stage = "api"
  /\ unit.w = [temperature |-> 380000, humidity |-> 400000, rainfall |-> 20000]
  /\ unit.soilMoisture = 310000
  /\ unit.salinity = 28000
  /\ unit.reading.risk_level = "moderate"

\* The HTTP requests among calls, in order.
Requests(calls) ==
  SelectSeq(calls, LAMBDA c : c.kind \in {"locations", "weather", "save", "alert"})

\* The place of a kind of request in an iteration.
KindRank(kind) ==
  CASE kind = "locations" -> 0
    [] kind = "weather"   -> 1
    [] kind = "save"      -> 2
    [] kind = "alert"     -> 3

\* Request a comes before request b in the order the claim gives.
Before(a, b) ==
  a.loc < b.loc \/ (a.loc = b.loc /\ KindRank(a.kind) < KindRank(b.kind))

\* C16: at most one request is awaiting its answer, and it is the last one
\* sent; so every request for a location has been answered when the next
\* request is sent.  The requests are sent location by location in the
\* order of the list, and for one location in the order weather, reading,
\* alert.
C16_OneCallAtATime ==
  /\ Cardinality(outstanding) <= 1
  /\ LET sent == Requests(trace)
     IN  /\ \A c \in outstanding : Len(sent) > 0 /\ c = sent[Len(sent)]
         /\ \A p, q \in DOMAIN sent : p < q => Before(sent[p], sent[q])
  /\ \A r \in Runs :
       \A p, q \in DOMAIN runs[r].calls :
         p < q => Before(runs[r].calls[p], runs[r].calls[q])

\* The alert of the second location is awaiting its answer; the weather
\* request, the reading and the alert of the first were sent and answered
\* before.
C16_Witness ==
  /\ pc = "alert"
  /\ idx = 2
  /\ outstanding = {Call("alert", 2)}
  /\ \A kind \in {"weather", "save", "alert"} : Call(kind, 1) \in Range(trace)

\* C17: calculateSalinity of the first script does not rise when the soil
\* moisture rises, does not rise when the rainfall rises, and does not fall
\* when the temperature rises, the other inputs being the same.
C17_SalinityIsMonotonic ==
  (unit.mode = "calculateSalinity" /\ unit.stage = "returned") =>
    /\ (unit.w2 = unit.w /\ unit.soilMoisture <= unit.soilMoisture2) =>
         unit.salinity >= unit.salinity2
    /\ (unit.soilMoisture2 = unit.soilMoisture
          /\ unit.w2.temperature = unit.w.temperature
          /\ unit.w.rainfall <= unit.w2.rainfall) =>
         unit.salinity >= unit.salinity2
    /\ (unit.soilMoisture2 = unit.soilMoisture
          /\ unit.w2.rainfall = unit.w.rainfall
          /\ unit.w.temperature <= unit.w2.temperature) =>
         unit.salinity <= unit.salinity2

\* Two calls that differ in the rainfall only, 2 mm against 10.1 mm: the
\* salinity falls from 3.6 to 3.1.
C17_Witness ==
  /\ unit.mode = "calculateSalinity"
  /\ unit.stage = "returned"
  /\ unit.soilMoisture2 = unit.soilMoisture
  /\ unit.w.temperature = 380000
  /\ unit.w2.temperature = 380000
  /\ unit.w.rainfall = 20000
  /\ unit.w2.rainfall = 101000
  /\ unit.salinity = 36000
  /\ unit.salinity2 = 31000

\* The observation has rainfall and humidity of 0 or more.
NonNegative(w) ==
  w.rainfall >= 0 /\ Has(w, "humidity") /\ w.humidity >= 0

\* C18: for an observation with rainfall and humidity of 0 or more the soil
\* moisture main computes is 25 at least, the moisture ladder never adds its
\* 1.5, the salinity is at most 3.6 before the jitter and 3.8 with it, and
\* the tier is low or moderate; createAlert builds no alert for it, so a run
\* posts no alert for such an observation.
C18_NoAlertForNonNegativeWeather ==
  /\ (UnitEstimated /\ NonNegative(unit.w)) =>
       /\ unit.soilMoisture >= 250000
       /\ MoisturePenalty(unit.soilMoisture) < 15000
       /\ unit.salinity - UnitJitter <= 36000
       /\ unit.salinity <= 38000
       /\ unit.reading.salinity_level < 40000
       /\ unit.reading.risk_level \in {"low", "moderate"}
       /\ CreateAlert(1, RegistryLocation(1), unit.salinity, today) = {}
  /\ (pc \in {"save", "alert", "delay"} /\ NonNegative(weatherData)) =>
       /\ readingData.soil_moisture >= 250000
       /\ salinity <= 36000
       /\ readingData.risk_level \in {"low", "moderate"}
       /\ pc # "alert"
       /\ Call("alert", idx) \notin Range(trace)
  /\ \A r \in Runs : \A x \in Range(runs[r].newReadings) :
       (x.rainfall_mm >= 0 /\ x.humidity_percent >= 0) =>
         /\ x.soil_moisture >= 250000
         /\ x.salinity_level <= 38000
         /\ x.risk_level \in {"low", "moderate"}

\* A run of the first script met 38 degrees and no rain, estimated a soil
\* moisture of 25 and the highest salinity such weather gives, 3.6; the
\* reading was saved, createAlert was called and posted nothing.
C18_Witness ==
  /\ pc = "delay"
  /\ weatherData # Null
  /\ NonNegative(weatherData)
  /\ weatherData.rainfall = 0
  /\ readingData.soil_moisture = 250000
  /\ salinity = 36000
  /\ Call("createAlert", idx) \in Range(trace)
  /\ Call("alert", idx) \notin Range(trace)

\* What a run that starts now would read of the file (lines 268-273).
Persisted == IF fileExists THEN fileContent ELSE <<>>

\* C19: the file changes only in the step in which a run, past its last
\* location, writes it, and a run writes once.  While a run is at work the
\* file is what the run read at its start and holds none of the readings
\* the run has collected; when the run ends with an error that is how the
\* file stays.
C19_FileWrittenOnceAtTheEnd ==
  [][/\ (fileExists' # fileExists \/ fileContent' # fileContent) =>
          \E r \in Runs :
            Writes(r) /\ runs[r].idx > Len(LOCATIONS) /\ runs[r].wrote = 0
     /\ \A r \in Runs :
          runs[r].pc \in {"loop", "weather"} =>
            /\ Persisted = runs[r].existingData
            /\ \A x \in Range(runs[r].newReadings) : x \notin Range(fileContent)
            /\ (runs'[r].pc = "exited" /\ runs'[r].exitCode # 0) =>
                 /\ fileExists' = fileExists
                 /\ Persisted' = runs'[r].existingData
                 /\ \A x \in Range(runs'[r].newReadings) :
                      x \notin Range(fileContent')]_vars

\* A run read a full file, collected the reading of the first location and
\* ended with an error at the second: the file is as the run found it and
\* the reading is not in it.
C19_Witness ==
  \E r \in Runs :
    /\ runs[r].pc = "exited"
    /\ runs[r].exitCode = 1
    /\ Len(runs[r].newReadings) = 1
    /\ Len(runs[r].existingData) = HistoryCap
    /\ fileContent = runs[r].existingData
    /\ runs[r].newReadings[1] \notin Range(fileContent)

====
